---- MODULE Spec2Model ----
(***************************************************************************)
(* Model of Dashboard.py: the filter-propagation and view-derivation layer *)
(* of the PhonePe dashboard.  One run of the script is one atomic step:    *)
(* Streamlit executes the file top to bottom on start-up and again after   *)
(* every widget interaction, and an uncaught exception ends the run there. *)
(*                                                                         *)
(* Encoding.  A state or category name is the rank (1, 2, ...) of the      *)
(* string in lexicographic order, so < on ranks is < on the strings.  A    *)
(* missing value (pandas NaN) is NaN.  A usage percentage is counted in    *)
(* hundredths (10 stands for 0.1).  A text label built by the script (the  *)
(* "time" column) is the sequence of its character codes.                  *)
(***************************************************************************)
EXTENDS Integers, Sequences, FiniteSets, TLC

VARIABLES csv,
          df1, df2, df3, df4, df5, df_cat,
          all_states, selected_states, all_categories, selected_cats,
          df1_f, df3_f, df4_f, df5_f, df_cat_f,
          pivot, df_stacked, df2_sb, pivot_val,
          err, defined

tables == <<df1, df2, df3, df4, df5, df_cat>>
vars == <<csv, df1, df2, df3, df4, df5, df_cat,
          all_states, selected_states, all_categories, selected_cats,
          df1_f, df3_f, df4_f, df5_f, df_cat_f,
          pivot, df_stacked, df2_sb, pivot_val, err, defined>>

----------------------------------------------------------------------------
\* pandas' missing value
NaN == -1

(* Bounds of the model: at most MaxRows rows in a table, drawn from the     *)
(* value sets below                                                        *)

MaxRows == 2

Names == {1, 2}
Quarters == {1, 4}
\* (year, quarter) pairs of the insurance table
Periods == {<<2023, 4>>, <<2024, 1>>, <<10000, 1>>}
Vals == {1, 2}
UsageVals == {NaN, 0, 5, 10, 11, 20, 30, 31}

Names0 == Names \cup {NaN}

\* (state_name, quarter) pairs of the transaction table: a missing value in
\* either key
TxKeys == (Names \X Quarters) \cup {<<NaN, 1>>, <<1, NaN>>}

SeqUpTo(S, n) == UNION {[1..k -> S] : k \in 0..n}

----------------------------------------------------------------------------
(* Generic helpers standing for the pandas / Python primitives used *)

SetOf(s) == {s[i] : i \in DOMAIN s}

RECURSIVE SumSeq(_)
SumSeq(s) == IF s = <<>> THEN 0 ELSE Head(s) + SumSeq(Tail(s))

Column(df, col) == [i \in DOMAIN df.rows |-> df.rows[i][col]]

Dropna(s) == SelectSeq(s, LAMBDA v : v # NaN)

\* Series.unique(): the distinct values in order of first appearance, NaN kept
RECURSIVE Unique(_)
Unique(s) ==
    IF s = <<>> THEN <<>>
    ELSE LET u == Unique(SubSeq(s, 1, Len(s) - 1))
             x == s[Len(s)]
         IN IF x \in SetOf(u) THEN u ELSE Append(u, x)

\* sorted() over values of one comparable type
RECURSIVE Sorted(_)
Sorted(S) ==
    IF S = {} THEN <<>>
    ELSE LET m == CHOOSE x \in S : \A y \in S : x <= y
         IN <<m>> \o Sorted(S \ {m})

\* str < str: lexicographic comparison of character codes
RECURSIVE StrLess(_, _)
StrLess(a, b) ==
    IF b = <<>> THEN FALSE
    ELSE IF a = <<>> THEN TRUE
    ELSE IF Head(a) # Head(b) THEN Head(a) < Head(b)
    ELSE StrLess(Tail(a), Tail(b))

RECURSIVE SortedStr(_)
SortedStr(S) ==
    IF S = {} THEN <<>>
    ELSE LET m == CHOOSE x \in S : \A y \in S \ {x} : StrLess(x, y)
         IN <<m>> \o SortedStr(S \ {m})

\* int.astype(str): the decimal digits of a natural number
RECURSIVE AsTypeStr(_)
AsTypeStr(n) ==
    IF n < 10 THEN <<48 + n>> ELSE AsTypeStr(n \div 10) \o <<48 + (n % 10)>>

----------------------------------------------------------------------------
(* Schemas of the six CSV tables, as the script uses them *)

TxColumns == {"state_name", "year", "quarter", "total_transactions", "total_amount"}
DevColumns == {"brand", "total_registered_users", "avg_percentage_usage"}
InsColumns == {"state_name", "year", "quarter", "total_policies_sold", "total_value"}
GrowthColumns == {"state_name", "growth_percent", "previous_tx", "growth", "current_tx"}
EngColumns == {"state_name", "total_registered_users", "total_app_opens"}
CatColumns == {"category_name", "year", "amount"}

TxRows == {[state_name |-> k[1], year |-> 2023, quarter |-> k[2],
            total_transactions |-> 1, total_amount |-> a] :
              k \in TxKeys, a \in Vals}
DevRows == [brand : {1}, total_registered_users : {1},
            avg_percentage_usage : UsageVals]
InsRows == {[state_name |-> n, year |-> p[1], quarter |-> p[2],
             total_policies_sold |-> 1, total_value |-> 1] :
               n \in Names, p \in Periods}
GrowthRows == [state_name : Names0, growth_percent : {1}, previous_tx : {1},
               growth : {1}, current_tx : {1}]
EngRows == [state_name : Names0, total_registered_users : {1},
            total_app_opens : {1}]
CatRows == [category_name : Names0, year : {2023}, amount : {1}]

Table(cols, rows) == [columns |-> cols, rows |-> rows]

\* Baseline content of a table that is not the one being varied
BaseTx == <<[state_name |-> 1, year |-> 2023, quarter |-> 1,
             total_transactions |-> 1, total_amount |-> 1]>>
BaseDev == <<[brand |-> 1, total_registered_users |-> 1,
              avg_percentage_usage |-> 10]>>
BaseIns == <<[state_name |-> 2, year |-> 2023, quarter |-> 4,
              total_policies_sold |-> 1, total_value |-> 1]>>
BaseGrowth == <<[state_name |-> 1, growth_percent |-> 1, previous_tx |-> 1,
                 growth |-> 1, current_tx |-> 1]>>
BaseEng == <<>>
BaseCat == <<[category_name |-> 1, year |-> 2023, amount |-> 1]>>

\* The loaded data sets: one table (the two small regional tables together)
\* ranges over every content within the bounds, the others hold a baseline.
Datasets ==
    {<<t, BaseDev, BaseIns, BaseGrowth, BaseEng, BaseCat>> : t \in SeqUpTo(TxRows, MaxRows)}
    \cup {<<BaseTx, t, BaseIns, BaseGrowth, BaseEng, BaseCat>> : t \in SeqUpTo(DevRows, MaxRows)}
    \cup {<<BaseTx, BaseDev, t, BaseGrowth, BaseEng, BaseCat>> : t \in SeqUpTo(InsRows, MaxRows)}
    \cup {<<BaseTx, BaseDev, BaseIns, t[1], t[2], BaseCat>> :
             t \in SeqUpTo(GrowthRows, MaxRows) \X SeqUpTo(EngRows, MaxRows)}
    \cup {<<BaseTx, BaseDev, BaseIns, BaseGrowth, BaseEng, t>> : t \in SeqUpTo(CatRows, MaxRows)}

----------------------------------------------------------------------------
(* 3. SIDEBAR FILTERS *)

StateValues(df) == SetOf(Unique(Dropna(Column(df, "state_name"))))

AllStates(d1, d3, d4, d5) ==
    Sorted(StateValues(d1) \cup StateValues(d3) \cup StateValues(d4) \cup StateValues(d5))

CategoryValues(dc) == Unique(Column(dc, "category_name"))

\* sorted() compares a float NaN with a str as soon as both are in the list
SortedRaises(u) == NaN \in SetOf(u) /\ Len(u) >= 2

AllCategories(dc) == Sorted(SetOf(CategoryValues(dc)))

\* A selection control that takes whatever is asked of it
Multiselect_AnyValue(options, choice) == TRUE

\* st.sidebar.multiselect(label, options, default): the widget hands back only
\* entries of its option list
Multiselect(options, choice) == choice \subseteq SetOf(options)

Isin(v, values) == v \in values

\* A filter without the column test: a table lacking the column matches nothing
_f_NoColumnTest(df, col, sel) ==
    [df EXCEPT !.rows = SelectSeq(df.rows,
                          LAMBDA r : col \in DOMAIN r /\ Isin(r[col], sel))]

_f(df, col, sel) ==
    IF col \in df.columns
    THEN [df EXCEPT !.rows = SelectSeq(df.rows, LAMBDA r : Isin(r[col], sel))]
    ELSE df

CatFilter(dc, sel) ==
    [dc EXCEPT !.rows = SelectSeq(dc.rows, LAMBDA r : Isin(r.category_name, sel))]

----------------------------------------------------------------------------
(* 4. The derived tables of the tabs *)

\* A cross-tab: its row keys, its column keys, and one cell per (row, column)
Frame(idx, cols, cells) ==
    [index |-> idx, columns |-> cols,
     cell |-> [k \in SetOf(idx) \X SetOf(cols) |-> cells[k]]]

NoFrame == [index |-> <<>>, columns |-> <<>>, cell |-> <<>>]
NoTable == [columns |-> {}, rows |-> <<>>]

\* groupby(keys) drops the rows holding NaN in a key (dropna=True)
Keyed(rows, k1, k2) == SelectSeq(rows, LAMBDA r : r[k1] # NaN /\ r[k2] # NaN)

GroupRows(rows, k1, a, k2, b) == SelectSeq(rows, LAMBDA r : r[k1] = a /\ r[k2] = b)

GroupSum(rows, k1, a, k2, b, val) ==
    LET g == GroupRows(rows, k1, a, k2, b)
    IN SumSeq([i \in DOMAIN g |-> g[i][val]])

\* df1_f.pivot_table(index="state_name", columns="quarter",
\*                   values="total_transactions", aggfunc="sum")
PivotTable(df) ==
    LET rows == Keyed(df.rows, "state_name", "quarter")
        idx == Sorted({rows[i].state_name : i \in DOMAIN rows})
        cols == Sorted({rows[i].quarter : i \in DOMAIN rows})
        at == [k \in SetOf(idx) \X SetOf(cols) |->
                 IF GroupRows(rows, "state_name", k[1], "quarter", k[2]) = <<>>
                 THEN NaN
                 ELSE GroupSum(rows, "state_name", k[1], "quarter", k[2],
                               "total_transactions")]
    IN Frame(idx, cols, at)

\* df1_f.groupby(["quarter", "state_name"])["total_amount"].sum().unstack(fill_value=0)
Stacked(df) ==
    LET rows == Keyed(df.rows, "quarter", "state_name")
        idx == Sorted({rows[i].quarter : i \in DOMAIN rows})
        cols == Sorted({rows[i].state_name : i \in DOMAIN rows})
        at == [k \in SetOf(idx) \X SetOf(cols) |->
                 IF GroupRows(rows, "quarter", k[1], "state_name", k[2]) = <<>>
                 THEN 0
                 ELSE GroupSum(rows, "quarter", k[1], "state_name", k[2],
                               "total_amount")]
    IN Frame(idx, cols, at)

\* pd.cut(x, bins=[0, .1, .2, .3], labels=[...]): right-closed intervals; the
\* position of x among the edges picks the label, none outside the edges
Bins == <<0, 10, 20, 30>>
Labels == <<"Low", "Medium", "High">>

\* The same binning with left-closed intervals (right=False)
Cut_LeftClosed(x) ==
    IF x = NaN THEN NaN
    ELSE LET below == Cardinality({i \in DOMAIN Bins : Bins[i] <= x})
         IN IF below = 0 \/ below = Len(Bins) THEN NaN ELSE below

Cut(x) ==
    IF x = NaN THEN NaN
    ELSE LET below == Cardinality({i \in DOMAIN Bins : Bins[i] < x})
         IN IF below = 0 \/ below = Len(Bins) THEN NaN ELSE below

\* Categorical.astype(str): a label stays itself, a missing one reads "nan"
TierStr(c) == IF c = NaN THEN "nan" ELSE Labels[c]

\* df[col] = values: one value per row, in row order
WithColumn(df, col, values) ==
    [columns |-> df.columns \cup {col},
     rows |-> [i \in DOMAIN df.rows |->
                 [c \in DOMAIN df.rows[i] \cup {col} |->
                     IF c = col THEN values[i] ELSE df.rows[i][c]]]]

\* An assignment without .copy(): both names denote the table written to
Copy_Alias(source, written) == written

\* DataFrame.copy(): the statements that follow write to the copy alone
Copy(source, written) == source

UsageTier(r) == TierStr(Cut(r.avg_percentage_usage))

Sunburst(d2) ==
    WithColumn(d2, "usage_tier", [i \in DOMAIN d2.rows |-> UsageTier(d2.rows[i])])

\* year.astype(str) + "-Q" + quarter.astype(str)
TimeLabel(y, q) == AsTypeStr(y) \o <<45, 81>> \o AsTypeStr(q)

RowTime(r) == TimeLabel(r.year, r.quarter)

\* sort_values(["state_name", "year", "quarter"]): ascending, stable, NaN last
ValLess(a, b) == IF a = NaN THEN FALSE ELSE IF b = NaN THEN TRUE ELSE a < b

RowLess(r, t) ==
    \/ ValLess(r.state_name, t.state_name)
    \/ /\ r.state_name = t.state_name
       /\ \/ ValLess(r.year, t.year)
          \/ r.year = t.year /\ ValLess(r.quarter, t.quarter)

RECURSIVE InsertRow(_, _)
InsertRow(sorted, r) ==
    IF sorted = <<>> THEN <<r>>
    ELSE IF RowLess(r, Head(sorted)) THEN <<r>> \o sorted
    ELSE <<Head(sorted)>> \o InsertRow(Tail(sorted), r)

RECURSIVE SortValues(_)
SortValues(rows) ==
    IF rows = <<>> THEN <<>>
    ELSE InsertRow(SortValues(SubSeq(rows, 1, Len(rows) - 1)), rows[Len(rows)])

DfArea(d3f) ==
    LET a == WithColumn(d3f, "time", [i \in DOMAIN d3f.rows |-> RowTime(d3f.rows[i])])
    IN [a EXCEPT !.rows = SortValues(a.rows)]

\* DataFrame.pivot raises ValueError when two rows share (index, columns)
PivotRaises(area) ==
    \E i, j \in DOMAIN area.rows :
        /\ i # j
        /\ area.rows[i].time = area.rows[j].time
        /\ area.rows[i].state_name = area.rows[j].state_name

\* df_area.pivot(index="time", columns="state_name", values="total_value")
PivotVal(area) ==
    LET rows == area.rows
        idx == SortedStr({rows[i].time : i \in DOMAIN rows})
        cols == Sorted({rows[i].state_name : i \in DOMAIN rows})
        at == [k \in SetOf(idx) \X SetOf(cols) |->
                 IF GroupRows(rows, "time", k[1], "state_name", k[2]) = <<>>
                 THEN NaN
                 ELSE GroupRows(rows, "time", k[1], "state_name", k[2])[1].total_value]
    IN Frame(idx, cols, at)

----------------------------------------------------------------------------
(* One run of the script, top to bottom.  selS and selC are what the two   *)
(* multiselect widgets return in this run.  A raise ends the run: the      *)
(* names bound so far stay bound ("defined"), the later ones do not exist. *)
(* csv is the content of the six files next to the script; every run reads *)
(* them again.                                                             *)

\* 2. DATA LOAD: the six frames as pd.read_csv gives them
ReadCsv(files) ==
    <<Table(TxColumns, files[1]), Table(DevColumns, files[2]),
      Table(InsColumns, files[3]), Table(GrowthColumns, files[4]),
      Table(EngColumns, files[5]), Table(CatColumns, files[6])>>

Script(d1, d2, d3, d4, d5, dc, selS, selC) ==
    LET states == AllStates(d1, d3, d4, d5)
        raise59 == SortedRaises(CategoryValues(dc))
        cats == IF raise59 THEN <<>> ELSE AllCategories(dc)
        f1 == _f(d1, "state_name", selS)
        f3 == _f(d3, "state_name", selS)
        f4 == _f(d4, "state_name", selS)
        f5 == _f(d5, "state_name", selS)
        fc == CatFilter(dc, selC)
        sb == Sunburst(d2)
        area == DfArea(f3)
        raise222 == PivotRaises(area)
    IN [df2 |-> IF raise59 THEN d2 ELSE Copy(d2, sb),
        all_states |-> states,
        selected_states |-> selS,
        all_categories |-> cats,
        selected_cats |-> IF raise59 THEN {} ELSE selC,
        df1_f |-> IF raise59 THEN NoTable ELSE f1,
        df3_f |-> IF raise59 THEN NoTable ELSE Copy(f3, area),
        df4_f |-> IF raise59 THEN NoTable ELSE f4,
        df5_f |-> IF raise59 THEN NoTable ELSE f5,
        df_cat_f |-> IF raise59 THEN NoTable ELSE fc,
        pivot |-> IF raise59 THEN NoFrame ELSE PivotTable(f1),
        df_stacked |-> IF raise59 THEN NoFrame ELSE Stacked(f1),
        df2_sb |-> IF raise59 THEN NoTable ELSE sb,
        pivot_val |-> IF raise59 \/ raise222 THEN NoFrame ELSE PivotVal(area),
        err |-> IF raise59 THEN "TypeError"
                ELSE IF raise222 THEN "ValueError" ELSE "none",
        defined |-> {"all_states", "selected_states"}
                    \cup (IF raise59 THEN {}
                          ELSE {"all_categories", "selected_cats", "df1_f", "df3_f",
                                "df4_f", "df5_f", "df_cat_f", "pivot", "df_stacked",
                                "df2_sb"})
                    \cup (IF raise59 \/ raise222 THEN {} ELSE {"pivot_val"})]

\* The run started by a widget interaction
Rerun(selS, selC) ==
    LET t == ReadCsv(csv)
        r == Script(t[1], t[2], t[3], t[4], t[5], t[6], selS, selC)
    IN /\ df1' = t[1] /\ df3' = t[3] /\ df4' = t[4] /\ df5' = t[5]
       /\ df_cat' = t[6]
       /\ df2' = r.df2
       /\ all_states' = r.all_states
       /\ selected_states' = r.selected_states
       /\ all_categories' = r.all_categories
       /\ selected_cats' = r.selected_cats
       /\ df1_f' = r.df1_f
       /\ df3_f' = r.df3_f
       /\ df4_f' = r.df4_f
       /\ df5_f' = r.df5_f
       /\ df_cat_f' = r.df_cat_f
       /\ pivot' = r.pivot
       /\ df_stacked' = r.df_stacked
       /\ df2_sb' = r.df2_sb
       /\ pivot_val' = r.pivot_val
       /\ err' = r.err
       /\ defined' = r.defined
       /\ UNCHANGED csv

\* First run: the CSVs are read and both widgets return their default, the
\* full option list
Init ==
    \E d \in Datasets :
        LET t == ReadCsv(d)
            t1 == t[1]
            t2 == t[2]
            t3 == t[3]
            t4 == t[4]
            t5 == t[5]
            tc == t[6]
            r == Script(t1, t2, t3, t4, t5, tc,
                        SetOf(AllStates(t1, t3, t4, t5)),
                        IF SortedRaises(CategoryValues(tc)) THEN {}
                        ELSE SetOf(AllCategories(tc)))
        IN /\ csv = d
           /\ df1 = t1 /\ df2 = r.df2 /\ df3 = t3 /\ df4 = t4 /\ df5 = t5
           /\ df_cat = tc
           /\ all_states = r.all_states
           /\ selected_states = r.selected_states
           /\ all_categories = r.all_categories
           /\ selected_cats = r.selected_cats
           /\ df1_f = r.df1_f
           /\ df3_f = r.df3_f
           /\ df4_f = r.df4_f
           /\ df5_f = r.df5_f
           /\ df_cat_f = r.df_cat_f
           /\ pivot = r.pivot
           /\ df_stacked = r.df_stacked
           /\ df2_sb = r.df2_sb
           /\ pivot_val = r.pivot_val
           /\ err = r.err
           /\ defined = r.defined

\* The user changes the state multiselect; the script runs again
SelectStates(S) ==
    /\ Multiselect(all_states, S)
    /\ S # selected_states
    /\ Rerun(S, selected_cats)

\* The user changes the category multiselect (it exists once line 60 ran)
SelectCats(C) ==
    /\ "selected_cats" \in defined
    /\ Multiselect(all_categories, C)
    /\ C # selected_cats
    /\ Rerun(selected_states, C)

Next ==
    \/ \E S \in SUBSET Names : SelectStates(S)
    \/ \E C \in SUBSET Names0 : SelectCats(C)

Spec == Init /\ [][Next]_vars

----------------------------------------------------------------------------
(* Properties *)

AllDefinedNames == {"all_states", "selected_states", "all_categories",
                    "selected_cats", "df1_f", "df3_f", "df4_f", "df5_f",
                    "df_cat_f", "pivot", "df_stacked", "df2_sb", "pivot_val"}

TypeOK ==
    /\ err \in {"none", "TypeError", "ValueError"}
    /\ defined \subseteq AllDefinedNames

Loaded == <<df1, df2, df3, df4, df5, df_cat>>

\* The non-missing values of a column over every loaded table that has it
ColumnUnion(col) ==
    UNION {SetOf(Column(Loaded[i], col)) \ {NaN} :
             i \in {j \in DOMAIN Loaded : col \in Loaded[j].columns}}

StrictlyAscending(s) == \A i, j \in DOMAIN s : i < j => s[i] < s[j]

FullSelection ==
    /\ "df1_f" \in defined
    /\ selected_states = SetOf(all_states)
    /\ selected_cats = SetOf(all_categories)

\* C1: with every valid state and every valid category selected, each
\* filtered table holds exactly the rows of its source table, rows with a
\* missing dimension value included.
C1_FullSelectionIsIdentity ==
    FullSelection =>
        /\ df1_f = df1
        /\ df3_f = df3
        /\ df4_f = df4
        /\ df5_f = df5
        /\ df_cat_f = df_cat

\* C2: with an empty selection for a dimension, every view that depends on
\* the dimension is derived, without an error, to a table with zero rows.
C2_EmptySelectionYieldsEmptyViews ==
    /\ selected_states = {} =>
          /\ err = "none"
          /\ {"df1_f", "df3_f", "df4_f", "df5_f", "pivot", "df_stacked",
              "pivot_val"} \subseteq defined
          /\ df1_f.rows = <<>> /\ df3_f.rows = <<>>
          /\ df4_f.rows = <<>> /\ df5_f.rows = <<>>
          /\ pivot.index = <<>> /\ df_stacked.index = <<>>
          /\ pivot_val.index = <<>>
    /\ ("selected_cats" \in defined /\ selected_cats = {}) =>
          /\ "df_cat_f" \in defined
          /\ df_cat_f.rows = <<>>

\* C3: for each dimension the list of valid values is sorted ascending, has
\* no duplicate and no missing entry, and is the union of the column's values
\* over every loaded table that has the column.
C3_ValidValuesSortedUniqueNonNull ==
    /\ StrictlyAscending(all_states)
    /\ NaN \notin SetOf(all_states)
    /\ SetOf(all_states) = ColumnUnion("state_name")
    /\ "all_categories" \in defined =>
          /\ StrictlyAscending(all_categories)
          /\ NaN \notin SetOf(all_categories)
          /\ SetOf(all_categories) = ColumnUnion("category_name")

\* C4 (as stated): setting the state selection to a set with a value outside
\* the valid values is an operation of the program, and it ends in an
\* InvalidValueError outcome with the selection left as it was.
C4_InvalidSelectionRejected ==
    \A S \in SUBSET Names :
        ~(S \subseteq SetOf(all_states)) =>
            ENABLED (/\ Rerun(S, selected_cats)
                     /\ err' = "InvalidValueError"
                     /\ selected_states' = selected_states)

\* C4 (amended): the selection controls accept only subsets of the valid
\* values, so no selection with an invalid value can be set and there is no
\* InvalidValueError outcome; the selected values of each dimension are
\* always a subset of its valid values.
C4_SelectionWithinValid ==
    /\ selected_states \subseteq SetOf(all_states)
    /\ selected_cats \subseteq SetOf(all_categories)
    /\ err # "InvalidValueError"
    /\ \A S \in SUBSET Names :
          ~(S \subseteq SetOf(all_states)) => ~ENABLED SelectStates(S)
    /\ \A C \in SUBSET Names0 :
          ~(C \subseteq SetOf(all_categories)) => ~ENABLED SelectCats(C)

C4_Witness ==
    /\ selected_states # SetOf(all_states)
    /\ selected_cats # SetOf(all_categories)
    /\ \E n \in Names : n \notin SetOf(all_states)
    /\ err = "none"

CellsAreSums(frame, rows, rk, ck, val) ==
    \A k \in DOMAIN frame.cell :
        frame.cell[k] = GroupSum(rows, rk, k[1], ck, k[2], val)

\* C5: in each pivoted view every cell is the sum of the value column over
\* the filtered rows with that row and column key, and 0 where no row
\* contributes.
C5_PivotCellsAreSums ==
    /\ "pivot" \in defined =>
          CellsAreSums(pivot, df1_f.rows, "state_name", "quarter",
                       "total_transactions")
    /\ "df_stacked" \in defined =>
          CellsAreSums(df_stacked, df1_f.rows, "quarter", "state_name",
                       "total_amount")
    /\ "df3_f" \in defined =>
          /\ "pivot_val" \in defined
          /\ CellsAreSums(pivot_val, DfArea(df3_f).rows, "time", "state_name",
                          "total_value")

\* C6: the rows of the year-quarter insurance table are in ascending order of
\* the numeric pair (year, quarter).
C6_TimeAxisNumericOrder ==
    "pivot_val" \in defined =>
        \A i, j \in DOMAIN pivot_val.index :
            i < j =>
                \A r, t \in SetOf(df3_f.rows) :
                    (RowTime(r) = pivot_val.index[i] /\ RowTime(t) = pivot_val.index[j])
                        => \/ r.year < t.year
                           \/ r.year = t.year /\ r.quarter < t.quarter

InRightClosed(v, lo, hi) == v # NaN /\ lo < v /\ v <= hi

RightClosedRule(v, t) ==
    /\ InRightClosed(v, 0, 10) => t = "Low"
    /\ InRightClosed(v, 10, 20) => t = "Medium"
    /\ InRightClosed(v, 20, 30) => t = "High"

\* C7 (as stated): a usage value goes to the bucket whose interval (lo, hi]
\* holds it, and every value gets one of Low, Medium, High.
C7_EveryValueLabelled ==
    "df2_sb" \in defined =>
        \A i \in DOMAIN df2_sb.rows :
            /\ RightClosedRule(df2_sb.rows[i].avg_percentage_usage,
                               df2_sb.rows[i].usage_tier)
            /\ df2_sb.rows[i].usage_tier \in {"Low", "Medium", "High"}

\* C7 (amended): a usage value in (0, 0.3] goes to the bucket whose interval
\* (lo, hi] holds it, an edge value to the lower bucket; a value that is
\* missing, at most 0 or above 0.3 gets the text "nan", none of the labels.
C7_RightClosedBins ==
    "df2_sb" \in defined =>
        \A i \in DOMAIN df2_sb.rows :
            LET v == df2_sb.rows[i].avg_percentage_usage
                t == df2_sb.rows[i].usage_tier
            IN /\ RightClosedRule(v, t)
               /\ (v = NaN \/ v <= 0 \/ v > 30) <=> t = "nan"

C7_Witness ==
    /\ "df2_sb" \in defined
    /\ Len(df2_sb.rows) = 2
    /\ df2_sb.rows[1].avg_percentage_usage = 20
    /\ df2_sb.rows[1].usage_tier = "Medium"
    /\ df2_sb.rows[2].avg_percentage_usage = 31
    /\ df2_sb.rows[2].usage_tier = "nan"

RECURSIVE SumCells(_, _)
SumCells(cell, keys) ==
    IF keys = {} THEN 0
    ELSE LET k == CHOOSE x \in keys : TRUE
         IN cell[k] + SumCells(cell, keys \ {k})

\* C9: the stacked quarterly amount table has an entry for every (quarter,
\* state_name) combination of the filtered rows, a missing key forming a
\* group of its own, each entry the sum of total_amount over its group; the
\* entries add up to the total of total_amount over the filtered rows.
C9_GroupAggregateKeepsAllRows ==
    "df_stacked" \in defined =>
        /\ \A i \in DOMAIN df1_f.rows :
              LET q == df1_f.rows[i].quarter
                  n == df1_f.rows[i].state_name
              IN /\ <<q, n>> \in DOMAIN df_stacked.cell
                 /\ df_stacked.cell[<<q, n>>] =
                       GroupSum(df1_f.rows, "quarter", q, "state_name", n,
                                "total_amount")
        /\ SumCells(df_stacked.cell, DOMAIN df_stacked.cell) =
              SumSeq(Column(df1_f, "total_amount"))

Selected(df, col, sel) ==
    [columns |-> df.columns,
     rows |-> SelectSeq(df.rows, LAMBDA r : r[col] \in sel)]

ViewsFresh ==
    /\ "df1_f" \in defined =>
          /\ df1_f = Selected(df1, "state_name", selected_states)
          /\ df3_f = Selected(df3, "state_name", selected_states)
          /\ df4_f = Selected(df4, "state_name", selected_states)
          /\ df5_f = Selected(df5, "state_name", selected_states)
          /\ df_cat_f = Selected(df_cat, "category_name", selected_cats)
          /\ pivot = PivotTable(Selected(df1, "state_name", selected_states))
          /\ df_stacked = Stacked(Selected(df1, "state_name", selected_states))
          /\ df2_sb = Sunburst(df2)
    /\ "pivot_val" \in defined =>
          pivot_val = PivotVal(DfArea(Selected(df3, "state_name", selected_states)))

\* C10: after any sequence of selection changes every view that exists is the
\* one derived from the source tables under the current selection of both
\* dimensions; a run leaves the source tables as they were loaded, and a
\* change of one selection leaves the other selection as it was.
C10_ViewsFollowCurrentSelection ==
    /\ [](ViewsFresh /\ tables = ReadCsv(csv))
    /\ [][/\ tables' = tables
          /\ selected_states' = selected_states \/ selected_cats' = selected_cats]_vars

C10_Witness ==
    /\ "pivot_val" \in defined
    /\ selected_states # SetOf(all_states)
    /\ selected_cats # SetOf(all_categories)
    /\ df1_f.rows # <<>>
    /\ Len(df1.rows) > Len(df1_f.rows)

====
